---- MODULE Spec2Model ----
(***************************************************************************)
(* VisTwo: the legacy trajectory parser (src/src/legacy_parsers.rs), the   *)
(* Replay engine (src/src/replay.rs) and the viewport fitter and host      *)
(* handlers of src/src/main.rs.                                            *)
(*                                                                         *)
(* Rust's u64 / Duration / f64 / f32 arithmetic is modelled exactly.  TLC  *)
(* integers are 32-bit, so wide values are kept as little-endian sequences *)
(* of 15-bit limbs ("Big"), and a binary float is a record                 *)
(* [k |-> kind, s |-> sign, m |-> Big mantissa, e |-> exponent] whose      *)
(* value is s * m * 2^e, produced only by correctly rounding (to nearest,  *)
(* ties to even) an exact rational to the 53 (f64) or 24 (f32) mantissa    *)
(* bits of the type.  Exponent overflow/underflow of the float formats is  *)
(* not modelled: every value handled here lies within 2^-60 .. 2^70.       *)
(*                                                                         *)
(* A computation is written as a chain of operators, each handing its      *)
(* intermediate values to the next as arguments, rather than as one LET:   *)
(* TLC evaluates an argument once, whereas its coverage statistics copy a  *)
(* LET definition at every use.                                            *)
(***************************************************************************)
EXTENDS Integers, Sequences, FiniteSets, TLC

\* ---------------------------------------------------------------------------
\* Wide naturals (u64, float mantissas, products) as limb sequences
\* ---------------------------------------------------------------------------
LimbBits == 15

LimbBase == 2^LimbBits

Min(a, b) == IF a <= b THEN a ELSE b

Max(a, b) == IF a >= b THEN a ELSE b

RECURSIVE BigNorm(_)
BigNorm(a) ==
    IF a = <<>> THEN <<>>
    ELSE IF a[Len(a)] = 0 THEN BigNorm(SubSeq(a, 1, Len(a) - 1))
    ELSE a

RECURSIVE BigFromNat(_)
BigFromNat(n) ==
    IF n = 0 THEN <<>> ELSE <<n % LimbBase>> \o BigFromNat(n \div LimbBase)

RECURSIVE BigToNat(_)
BigToNat(a) ==
    IF a = <<>> THEN 0 ELSE a[1] + LimbBase * BigToNat(Tail(a))

RECURSIVE BigAddC(_, _, _)
BigAddC(a, b, c) ==
    IF a = <<>> /\ b = <<>> THEN (IF c = 0 THEN <<>> ELSE <<c>>)
    ELSE LET x == IF a = <<>> THEN 0 ELSE a[1]
             y == IF b = <<>> THEN 0 ELSE b[1]
             t == x + y + c
         IN  <<t % LimbBase>>
             \o BigAddC(IF a = <<>> THEN <<>> ELSE Tail(a),
                        IF b = <<>> THEN <<>> ELSE Tail(b),
                        t \div LimbBase)

BigAdd(a, b) == BigAddC(a, b, 0)

\* a - b for a >= b
RECURSIVE BigSubB(_, _, _)
BigSubB(a, b, c) ==
    IF a = <<>> THEN <<>>
    ELSE LET y == IF b = <<>> THEN 0 ELSE b[1]
             t == a[1] - y - c
         IN  <<IF t < 0 THEN t + LimbBase ELSE t>>
             \o BigSubB(Tail(a), IF b = <<>> THEN <<>> ELSE Tail(b),
                        IF t < 0 THEN 1 ELSE 0)

BigSub(a, b) == BigNorm(BigSubB(a, b, 0))

\* -1, 0, 1 as a < b, a = b, a > b (both normalised)
RECURSIVE BigCmpFrom(_, _, _)
BigCmpFrom(a, b, i) ==
    IF i = 0 THEN 0
    ELSE IF a[i] < b[i] THEN -1
    ELSE IF a[i] > b[i] THEN 1
    ELSE BigCmpFrom(a, b, i - 1)

BigCmp(a, b) ==
    IF Len(a) < Len(b) THEN -1
    ELSE IF Len(a) > Len(b) THEN 1
    ELSE BigCmpFrom(a, b, Len(a))

\* a * m + c for 0 <= m, c < LimbBase
RECURSIVE BigMulSmallC(_, _, _)
BigMulSmallC(a, m, c) ==
    IF a = <<>> THEN (IF c = 0 THEN <<>> ELSE <<c>>)
    ELSE LET t == a[1] * m + c
         IN  <<t % LimbBase>> \o BigMulSmallC(Tail(a), m, t \div LimbBase)

BigMulSmall(a, m) == BigNorm(BigMulSmallC(a, m, 0))

RECURSIVE BigMul(_, _)
BigMul(a, b) ==
    IF b = <<>> \/ a = <<>> THEN <<>>
    ELSE BigAdd(BigMulSmall(a, b[1]), BigNorm(<<0>> \o BigMul(a, Tail(b))))

\* floor(a / d) for 0 < d < LimbBase, from the top limb down (rem < d)
RECURSIVE BigDivSmallFrom(_, _, _, _)
BigDivSmallFrom(a, d, i, rem) ==
    IF i = 0 THEN <<>>
    ELSE LET t == rem * LimbBase + a[i]
         IN  BigDivSmallFrom(a, d, i - 1, t % d) \o <<t \div d>>

BigDivSmall(a, d) == BigNorm(BigDivSmallFrom(a, d, Len(a), 0))

\* a * 2^k and floor(a / 2^k)
BigShl(a, k) ==
    IF a = <<>> THEN <<>>
    ELSE [i \in 1..(k \div LimbBits) |-> 0] \o BigMulSmall(a, 2^(k % LimbBits))

BigShr(a, k) ==
    IF Len(a) <= k \div LimbBits THEN <<>>
    ELSE BigDivSmall(SubSeq(a, (k \div LimbBits) + 1, Len(a)), 2^(k % LimbBits))

RECURSIVE NatBitLen(_)
NatBitLen(n) == IF n = 0 THEN 0 ELSE 1 + NatBitLen(n \div 2)

BigBitLen(a) ==
    IF a = <<>> THEN 0 ELSE LimbBits * (Len(a) - 1) + NatBitLen(a[Len(a)])

\* bit i (0 = least significant) of a
BigBit(a, i) ==
    IF i \div LimbBits >= Len(a) THEN 0
    ELSE (a[(i \div LimbBits) + 1] \div 2^(i % LimbBits)) % 2

BigMin(a, b) == IF BigCmp(a, b) <= 0 THEN a ELSE b

BigIsOdd(a) == a # <<>> /\ a[1] % 2 = 1

\* Long division (Knuth's algorithm D), one quotient limb per step from the
\* top limb of n down: [q, r] with n = q * d + r, 0 <= r < d.  The divisor is
\* first scaled so that its top limb is at least LimbBase / 2; the quotient limb
\* is then estimated from the two top limbs of the running remainder r2 and
\* lowered (at most twice) until d * qd <= r2.
BigQuotEstimate(r2, d) ==
    Min(LimbBase - 1,
        ((IF Len(r2) > Len(d) THEN r2[Len(d) + 1] ELSE 0) * LimbBase
         + (IF Len(r2) >= Len(d) THEN r2[Len(d)] ELSE 0)) \div d[Len(d)])

RECURSIVE BigQuotFix(_, _, _)
BigQuotFix(r2, d, qd) ==
    IF BigCmp(BigMulSmall(d, qd), r2) > 0 THEN BigQuotFix(r2, d, qd - 1) ELSE qd

RECURSIVE BigDivModFrom(_, _, _, _)

BigDivModDigit(n, d, q, r2, qd) ==
    BigDivModFrom(SubSeq(n, 1, Len(n) - 1), d,
                  BigNorm(<<qd>> \o q), BigSub(r2, BigMulSmall(d, qd)))

BigDivModStep(n, d, q, r2) ==
    BigDivModDigit(n, d, q, r2, BigQuotFix(r2, d, BigQuotEstimate(r2, d)))

BigDivModFrom(n, d, q, r) ==
    IF n = <<>> THEN [q |-> q, r |-> r]
    ELSE BigDivModStep(n, d, q, BigNorm(<<n[Len(n)]>> \o r))

BigDivModUnscale(res, sft) == [q |-> res.q, r |-> BigShr(res.r, sft)]

BigDivModScaled(n, d, sft) ==
    BigDivModUnscale(BigDivModFrom(BigShl(n, sft), BigShl(d, sft), <<>>, <<>>), sft)

BigDivMod(n, d) == BigDivModScaled(n, d, LimbBits - NatBitLen(d[Len(d)]))

\* ---------------------------------------------------------------------------
\* Exact binary values s * m * 2^e and IEEE-754 rounding
\* ---------------------------------------------------------------------------
Dy(s, m, e) ==
    IF m = <<>> THEN [k |-> "fin", s |-> 1, m |-> <<>>, e |-> 0]
    ELSE [k |-> "fin", s |-> s, m |-> m, e |-> e]

FZero == Dy(1, <<>>, 0)

FNaN == [k |-> "nan", s |-> 1, m |-> <<>>, e |-> 0]

FInf(s) == [k |-> "inf", s |-> s, m |-> <<>>, e |-> 0]

DyNeg(x) == Dy(-x.s, x.m, x.e)

\* exact sum, from the mantissas X, Y aligned to the common exponent e
DyAddMagnitudes(sx, X, sy, Y, e, c) ==
    IF sx = sy THEN Dy(sx, BigAdd(X, Y), e)
    ELSE IF c = 0 THEN FZero
    ELSE IF c > 0 THEN Dy(sx, BigSub(X, Y), e)
    ELSE Dy(sy, BigSub(Y, X), e)

DyAddAligned(sx, X, sy, Y, e) == DyAddMagnitudes(sx, X, sy, Y, e, BigCmp(X, Y))

DyAddAt(x, y, e) ==
    DyAddAligned(x.s, BigShl(x.m, x.e - e), y.s, BigShl(y.m, y.e - e), e)

DyAdd(x, y) == DyAddAt(x, y, Min(x.e, y.e))

DySub(x, y) == DyAdd(x, DyNeg(y))

\* exact product
DyMul(x, y) == Dy(x.s * y.s, BigMul(x.m, y.m), x.e + y.e)

DySign(x) == IF x.m = <<>> THEN 0 ELSE x.s

\* -1, 0, 1 as x < y, x = y, x > y
DyCmp(x, y) == DySign(DySub(x, y))

DyAbs(x) == Dy(1, x.m, x.e)

\* s * (num / den) * 2^e0 rounded to p mantissa bits, to nearest, ties to even.
\* dm.q is floor(num * 2^sh / den), of at least p + 2 bits, and dm.r the
\* remainder of that division; top is dm.q without its low t bits, c compares
\* those low bits with one half, and sticky says that dm.r is not zero.
BigLowBits(a, t) == BigSub(a, BigShl(BigShr(a, t), t))

FRoundCarry(s, e, p, m1) ==
    IF BigBitLen(m1) > p THEN Dy(s, BigShr(m1, 1), e + 1) ELSE Dy(s, m1, e)

FRoundNearest(s, e, p, top, c, sticky) ==
    FRoundCarry(s, e, p,
                IF c > 0 \/ (c = 0 /\ (sticky \/ BigIsOdd(top)))
                THEN BigAddC(top, <<>>, 1) ELSE top)

FRoundLow(s, e, p, dm, t) ==
    FRoundNearest(s, e + t, p, BigShr(dm.q, t),
                  BigCmp(BigLowBits(dm.q, t), BigShl(<<1>>, t - 1)), dm.r # <<>>)

FRoundQuotient(s, e, p, dm) == FRoundLow(s, e, p, dm, BigBitLen(dm.q) - p)

FRoundShifted(s, num, den, e0, p, sh) ==
    FRoundQuotient(s, e0 - sh, p,
                   IF den = <<1>> THEN [q |-> BigShl(num, sh), r |-> <<>>]
                   ELSE BigDivMod(BigShl(num, sh), den))

FRound(s, num, den, e0, p) ==
    IF num = <<>> THEN FZero
    ELSE FRoundShifted(s, num, den, e0, p,
                       Max(0, p + 2 + BigBitLen(den) - BigBitLen(num)))

\* the float nearest to an exact binary value
FRoundDy(x, p) == FRound(x.s, x.m, <<1>>, x.e, p)

\* IEEE-754 +, -, *, / on finite operands (x / 0 is NaN for x = 0, else inf)
FAdd(x, y, p) == FRoundDy(DyAdd(x, y), p)

FSub(x, y, p) == FRoundDy(DySub(x, y), p)

FMul(x, y, p) == FRoundDy(DyMul(x, y), p)

FDiv(x, y, p) ==
    IF x.k # "fin" \/ y.k # "fin" THEN FNaN
    ELSE IF y.m = <<>> THEN (IF x.m = <<>> THEN FNaN ELSE FInf(x.s * y.s))
    ELSE FRound(x.s * y.s, x.m, y.m, x.e - y.e, p)

\* integer -> float casts
FFromBig(a, p) == FRound(1, a, <<1>>, 0, p)

FFromInt(i, p) ==
    IF i < 0 THEN FRound(-1, BigFromNat(-i), <<1>>, 0, p)
    ELSE FRound(1, BigFromNat(i), <<1>>, 0, p)

\* Rust's `as usize` on a float (64-bit target): NaN -> 0, negative -> 0,
\* otherwise truncation toward zero, saturating at usize::MAX.
UsizeMax == BigSub(BigShl(<<1>>, 64), <<1>>)

FToUsize(x) ==
    IF x.k = "nan" THEN <<>>
    ELSE IF x.k = "inf" THEN (IF x.s > 0 THEN UsizeMax ELSE <<>>)
    ELSE IF x.s < 0 THEN <<>>
    ELSE BigMin(IF x.e >= 0 THEN BigShl(x.m, x.e) ELSE BigShr(x.m, -x.e), UsizeMax)

F64Bits == 53

F32Bits == 24

\* ---------------------------------------------------------------------------
\* std::time::Duration: u64 seconds and u32 nanoseconds below NANOS_PER_SEC
\* ---------------------------------------------------------------------------
NANOS_PER_SEC == 1000000000

U64Max == BigSub(BigShl(<<1>>, 64), <<1>>)

Duration(secs, nanos) == [secs |-> secs, nanos |-> nanos]

DurationZero == Duration(<<>>, 0)

DurationMax == Duration(U64Max, NANOS_PER_SEC - 1)

DurationFromMillis(ms) ==
    Duration(BigFromNat(ms \div 1000), (ms % 1000) * 1000000)

\* derived Ord: seconds first, then nanoseconds
DurationCmp(a, b) ==
    IF BigCmp(a.secs, b.secs) # 0 THEN BigCmp(a.secs, b.secs)
    ELSE IF a.nanos < b.nanos THEN -1
    ELSE IF a.nanos > b.nanos THEN 1
    ELSE 0

\* cmp::min(a, b)
DurationMin(a, b) == IF DurationCmp(a, b) <= 0 THEN a ELSE b

\* u64::checked_add / checked_mul results: ok = FALSE is None
U64Checked(a) == [ok |-> BigCmp(a, U64Max) <= 0, v |-> a]

\* Duration + Duration (checked_add(..).expect(..)): ok = FALSE is the panic
\* "overflow when adding durations"
DurationAddCarry(secs, nanos) ==
    IF ~secs.ok THEN [ok |-> FALSE, v |-> DurationZero]
    ELSE IF nanos < NANOS_PER_SEC THEN [ok |-> TRUE, v |-> Duration(secs.v, nanos)]
    ELSE IF ~U64Checked(BigAddC(secs.v, <<>>, 1)).ok
         THEN [ok |-> FALSE, v |-> DurationZero]
    ELSE [ok |-> TRUE,
          v  |-> Duration(BigAddC(secs.v, <<>>, 1), nanos - NANOS_PER_SEC)]

DurationAdd(a, b) ==
    DurationAddCarry(U64Checked(BigAdd(a.secs, b.secs)), a.nanos + b.nanos)

\* Duration * u32 (checked_mul(..).expect(..), rhs < LimbBase here): total_nanos
\* = nanos * rhs, extra_secs = total_nanos / NANOS_PER_SEC, nanos = the
\* remainder; ok = FALSE is the panic "overflow when multiplying duration by
\* scalar"
DurationMulSecs(s, extra) ==
    IF ~s.ok \/ ~U64Checked(BigAdd(s.v, extra.q)).ok
    THEN [ok |-> FALSE, v |-> DurationZero]
    ELSE [ok |-> TRUE, v |-> Duration(BigAdd(s.v, extra.q), BigToNat(extra.r))]

DurationMul(a, rhs) ==
    DurationMulSecs(U64Checked(BigMulSmall(a.secs, rhs)),
                    BigDivMod(BigMulSmall(BigFromNat(a.nanos), rhs),
                              BigFromNat(NANOS_PER_SEC)))

\* Duration::as_secs_f64: (secs as f64) + (nanos as f64) / (NANOS_PER_SEC as f64)
as_secs_f64(d) ==
    FAdd(FFromBig(d.secs, F64Bits),
         FDiv(FFromInt(d.nanos, F64Bits), FFromInt(NANOS_PER_SEC, F64Bits), F64Bits),
         F64Bits)

\* ---------------------------------------------------------------------------
\* Replay (src/src/replay.rs)
\* ---------------------------------------------------------------------------
Frame(positions) == [positions |-> positions]

Trajectory(frames) == [frames |-> frames]

None == [some |-> FALSE]

Some(v) == [some |-> TRUE, v |-> v]

\* Replay::new: ok = FALSE when the multiplication panics.  `as u32` truncates
\* frame_count - 1 modulo 2^32, which no trajectory considered here reaches.
ReplayWith(trajectory, frame_duration, total_duration) ==
    [ok |-> total_duration.ok,
     v  |-> [trajectory          |-> trajectory,
             current_frame_index |-> <<>>,
             frame_duration      |-> frame_duration,
             elapsed             |-> DurationZero,
             total_duration      |-> total_duration.v]]

ReplayNew(trajectory, frame_duration) ==
    ReplayWith(trajectory, frame_duration,
               IF Len(trajectory.frames) = 0
               THEN [ok |-> TRUE, v |-> DurationZero]
               ELSE DurationMul(frame_duration, Len(trajectory.frames) - 1))

\* (variant used to test C1: the sum is not clamped to total_duration)
AdvanceElapsedUnclamped(r, sum) == sum

\* the new elapsed of advance_by (replay.rs line 33), given elapsed + duration
AdvanceElapsed(r, sum) == DurationMin(r.total_duration, sum)

\* (variant used to test C9: a one-based frame index)
FrameIndexOneBased(elapsed, frame_duration) ==
    BigAddC(FToUsize(FDiv(as_secs_f64(elapsed), as_secs_f64(frame_duration), F64Bits)),
            <<>>, 1)

\* the new current_frame_index of advance_by (replay.rs lines 34-35)
FrameIndexOf(elapsed, frame_duration) ==
    FToUsize(FDiv(as_secs_f64(elapsed), as_secs_f64(frame_duration), F64Bits))

AdvanceTo(r, elapsed) ==
    [r EXCEPT !.elapsed = elapsed,
              !.current_frame_index = FrameIndexOf(elapsed, r.frame_duration)]

AdvanceWithSum(r, sum) ==
    IF ~sum.ok THEN [ok |-> FALSE, v |-> r]
    ELSE [ok |-> TRUE, v |-> AdvanceTo(r, AdvanceElapsed(r, sum.v))]

\* (variant used to test C2: the delta replaces elapsed instead of adding to it)
ReplayAdvanceByDeltaOnly(r, duration) ==
    AdvanceWithSum(r, [ok |-> TRUE, v |-> duration])

\* Replay::advance_by: ok = FALSE when elapsed + duration panics
ReplayAdvanceBy(r, duration) == AdvanceWithSum(r, DurationAdd(r.elapsed, duration))

\* Replay::frames
ReplayFrames(r) == Len(r.trajectory.frames)

\* Replay::current_frame: ok = FALSE when the index is out of bounds (panic)
ReplayCurrentFrame(r) ==
    IF BigCmp(r.current_frame_index, BigFromNat(ReplayFrames(r))) < 0
    THEN [ok |-> TRUE, v |-> r.trajectory.frames[BigToNat(r.current_frame_index) + 1]]
    ELSE [ok |-> FALSE, v |-> Frame(<<>>)]

\* ---------------------------------------------------------------------------
\* legacy_parsers.rs: the trajectory text format
\* A line is a sequence of one-character strings.
\* ---------------------------------------------------------------------------
Digits == {"0", "1", "2", "3", "4", "5", "6", "7", "8", "9"}

DigitValue(c) ==
    CASE c = "0" -> 0 [] c = "1" -> 1 [] c = "2" -> 2 [] c = "3" -> 3
      [] c = "4" -> 4 [] c = "5" -> 5 [] c = "6" -> 6 [] c = "7" -> 7
      [] c = "8" -> 8 [] c = "9" -> 9

Tab == "\t"

\* \d+ from position i: the position after the longest run of digits
RECURSIVE DigitsEnd(_, _)
DigitsEnd(line, i) ==
    IF i <= Len(line) /\ line[i] \in Digits THEN DigitsEnd(line, i + 1) ELSE i

\* (?:\.\d+)? from position j
FractionEnd(line, j) ==
    IF j <= Len(line) /\ line[j] = "." /\ DigitsEnd(line, j + 1) > j + 1
    THEN DigitsEnd(line, j + 1)
    ELSE j

\* \d+(?:\.\d+)? from position i; i itself when there is no digit at i.  What
\* follows the group in the pattern is a tab or nothing, so giving back the
\* fraction never turns a failed match into a successful one.
DecimalEnd(line, i) ==
    IF DigitsEnd(line, i) = i THEN i ELSE FractionEnd(line, DigitsEnd(line, i))

TabAt(line, i) == i <= Len(line) /\ line[i] = Tab

NoCaptures == [matched |-> FALSE, frame_id |-> <<>>, x |-> <<>>, y |-> <<>>]

CapturesY(line, e1, e2, e3, e4) ==
    IF e4 > e3 + 1
    THEN [matched |-> TRUE,
          frame_id |-> SubSeq(line, e1 + 1, e2 - 1),
          x |-> SubSeq(line, e2 + 1, e3 - 1),
          y |-> SubSeq(line, e3 + 1, e4 - 1)]
    ELSE NoCaptures

CapturesX(line, e1, e2, e3) ==
    IF e3 > e2 + 1 /\ TabAt(line, e3)
    THEN CapturesY(line, e1, e2, e3, DecimalEnd(line, e3 + 1))
    ELSE NoCaptures

CapturesFrameId(line, e1, e2) ==
    IF e2 > e1 + 1 /\ TabAt(line, e2)
    THEN CapturesX(line, e1, e2, DecimalEnd(line, e2 + 1))
    ELSE NoCaptures

CapturesPedId(line, e1) ==
    IF e1 > 1 /\ TabAt(line, e1)
    THEN CapturesFrameId(line, e1, DigitsEnd(line, e1 + 1))
    ELSE NoCaptures

\* line_regex.captures(&line): ^(\d+)\t(\d+)\t(\d+(?:\.\d+)?)\t(\d+(?:\.\d+)?)
Captures(line) == CapturesPedId(line, DigitsEnd(line, 1))

I32Max == 2147483647

\* str::parse::<i32> of a run of digits: Err on overflow
RECURSIVE ParseI32From(_, _, _)
ParseI32From(digits, i, acc) ==
    IF i > Len(digits) THEN [ok |-> TRUE, v |-> acc]
    ELSE IF acc > (I32Max - DigitValue(digits[i])) \div 10
         THEN [ok |-> FALSE, v |-> 0]
         ELSE ParseI32From(digits, i + 1, acc * 10 + DigitValue(digits[i]))

ParseI32(digits) == ParseI32From(digits, 1, 0)

RECURSIVE DigitsToBig(_, _, _)
DigitsToBig(text, i, acc) ==
    IF i > Len(text) THEN acc
    ELSE IF text[i] = "." THEN DigitsToBig(text, i + 1, acc)
    ELSE DigitsToBig(text, i + 1,
                     BigAddC(BigMulSmall(acc, 10), <<>>, DigitValue(text[i])))

RECURSIVE FractionScale(_, _, _)
FractionScale(text, i, acc) ==
    IF i > Len(text) THEN acc
    ELSE FractionScale(text, i + 1, BigMulSmall(acc, 10))

\* str::parse::<f32> of digits[.digits]: the nearest f32 to the decimal value
ParseF32(text) ==
    FRound(1, DigitsToBig(text, 1, <<>>),
           FractionScale(text, DigitsEnd(text, 1) + 1, <<1>>), 0, F32Bits)

Entry(frame_id, position) == [frame_id |-> frame_id, position |-> position]

Position(x, y) == <<x, y>>

\* the body of `if let Some(captures)`: Entry pushed, or the unwrap of the
\* frame_id parse panics
PushCaptured(entries, captures, frame_id) ==
    IF frame_id.ok
    THEN [ok |-> TRUE,
          v |-> Append(entries,
                       Entry(frame_id.v,
                             Position(ParseF32(captures.x), ParseF32(captures.y))))]
    ELSE [ok |-> FALSE, v |-> entries]

ReadCaptures(entries, captures) ==
    IF captures.matched
    THEN PushCaptured(entries, captures, ParseI32(captures.frame_id))
    ELSE [ok |-> TRUE, v |-> entries]

\* one iteration of `for line in lines.flatten()`
ReadLine(entries, line) == ReadCaptures(entries, Captures(line))

Last(s) == s[Len(s)]

Front(s) == SubSeq(s, 1, Len(s) - 1)

\* an insertion that puts an entry before the entries of its own frame_id, as
\* an unstable sort may
RECURSIVE InsertEntryBeforeEquals(_, _)
InsertEntryBeforeEquals(sorted, entry) ==
    IF sorted = <<>> THEN <<entry>>
    ELSE IF Last(sorted).frame_id < entry.frame_id THEN Append(sorted, entry)
    ELSE Append(InsertEntryBeforeEquals(Front(sorted), entry), Last(sorted))

\* entries.sort_by(|a, b| a.frame_id.cmp(&b.frame_id)): a stable sort
RECURSIVE InsertEntry(_, _)
InsertEntry(sorted, entry) ==
    IF sorted = <<>> THEN <<entry>>
    ELSE IF Last(sorted).frame_id <= entry.frame_id THEN Append(sorted, entry)
    ELSE Append(InsertEntry(Front(sorted), entry), Last(sorted))

RECURSIVE SortByFrameId(_)
SortByFrameId(entries) ==
    IF entries = <<>> THEN <<>>
    ELSE InsertEntry(SortByFrameId(Front(entries)), Last(entries))

\* mutable Trajectory and last_index before the scan
NoFramesAtStart == [trajectory |-> Trajectory(<<>>), last_index |-> -1]

ScanStart == [trajectory |-> Trajectory(<<Frame(<<>>)>>), last_index |-> -1]

\* trajectory.frames.last_mut().unwrap().positions.push(entry.position)
PushPosition(frames, position) ==
    [frames EXCEPT ![Len(frames)] =
        Frame(Append(frames[Len(frames)].positions, position))]

\* one iteration of `for entry in entries`
ScanEntry(scan, entry) ==
    IF scan.last_index < entry.frame_id
    THEN [trajectory |->
             Trajectory(PushPosition(Append(scan.trajectory.frames, Frame(<<>>)),
                                     entry.position)),
          last_index |-> scan.last_index + 1]
    ELSE [trajectory |->
             Trajectory(PushPosition(scan.trajectory.frames, entry.position)),
          last_index |-> scan.last_index]

RECURSIVE ReadLines(_, _)
ReadLines(entries, lines) ==
    IF lines = <<>> THEN [ok |-> TRUE, v |-> entries]
    ELSE IF ReadLine(entries, Head(lines)).ok
         THEN ReadLines(ReadLine(entries, Head(lines)).v, Tail(lines))
         ELSE [ok |-> FALSE, v |-> entries]

RECURSIVE ScanEntries(_, _)
ScanEntries(scan, entries) ==
    IF entries = <<>> THEN scan
    ELSE ScanEntries(ScanEntry(scan, Head(entries)), Tail(entries))

TrajectoryOfEntries(read) ==
    IF read.ok
    THEN [ok |-> TRUE, v |-> ScanEntries(ScanStart, SortByFrameId(read.v)).trajectory]
    ELSE [ok |-> FALSE, v |-> Trajectory(<<>>)]

\* prase_trajectory_txt(path) run to completion; file = [openable, lines];
\* ok = FALSE when one of its unwraps panics
prase_trajectory_txt(file) ==
    IF file.openable
    THEN TrajectoryOfEntries(ReadLines(<<>>, file.lines))
    ELSE [ok |-> FALSE, v |-> Trajectory(<<>>)]

\* ---------------------------------------------------------------------------
\* State
\* ---------------------------------------------------------------------------
VARIABLES
    replay,     \* Option<Replay>: the Replay under test / ApplicationState.replay
    panic,      \* "none", or the panic that aborted the process
    call,       \* the last operation applied and its argument
    file,       \* the file at the path given to prase_trajectory_txt
    pc,         \* where prase_trajectory_txt stands
    lines,      \* what the `lines` iterator has yet to yield
    entries,    \* the Vec<Entry>; during the scan, what is left to iterate
    trajectory, \* the Trajectory under construction
    last_index, \* the scan's last_index
    origin,     \* history: per Frame, the frame_ids of the entries pushed to it
    control_flow, \* the event loop's ControlFlow: "Poll" or "Exit"
    display,    \* display.get_framebuffer_dimensions()
    box,        \* the (left, right, bottom, top) handed to fixup_aspect_ratio
    fitted      \* Option: the (left, right, bottom, top) it returned

replayVars == <<replay, panic, call>>

parseVars == <<file, pc, lines, entries, trajectory, last_index, origin>>

fitVars == <<display, box, fitted>>

vars ==
    <<replay, panic, call, file, pc, lines, entries, trajectory, last_index,
      origin, control_flow, display, box, fitted>>

NoFile == [openable |-> FALSE, lines |-> <<>>]

\* no call of prase_trajectory_txt in progress
ParseIdle ==
    /\ file = NoFile
    /\ pc = "idle"
    /\ lines = <<>>
    /\ entries = <<>>
    /\ trajectory = Trajectory(<<>>)
    /\ last_index = -1
    /\ origin = <<>>

\* nothing handed to fixup_aspect_ratio
FitIdle ==
    /\ display = <<1, 1>>
    /\ box = <<FZero, FZero, FZero, FZero>>
    /\ fitted = None

\* ---------------------------------------------------------------------------
\* The Replay engine driven through its public interface
\* ---------------------------------------------------------------------------
MaxFrames == 4

MaxCalls == 4

EmptyFrames(n) == [i \in 1..n |-> Frame(<<>>)]

\* Replay never reads the positions, only frames.len(): frames are left empty
Trajectories == {Trajectory(EmptyFrames(n)) : n \in 0..MaxFrames}

FrameDurations ==
    {DurationZero, DurationFromMillis(100), DurationFromMillis(250), DurationMax}

Deltas ==
    {DurationZero, DurationFromMillis(50), DurationFromMillis(60),
     DurationFromMillis(1000), DurationMax}

NoCall == [op |-> "none", delta |-> DurationZero, n |-> 0]

InitReplay ==
    /\ replay = None
    /\ panic = "none"
    /\ call = NoCall
    /\ ParseIdle
    /\ control_flow = "Poll"
    /\ FitIdle

\* Replay::new(trajectory, frame_duration)
NewReplay ==
    /\ panic = "none"
    /\ ~replay.some
    /\ \E traj \in Trajectories, frame_duration \in FrameDurations :
          \E r \in {ReplayNew(traj, frame_duration)} :
              /\ replay' = IF r.ok THEN Some(r.v) ELSE replay
              /\ panic' = IF r.ok THEN "none" ELSE "overflow when multiplying duration by scalar"
              /\ call' = [op |-> "new", delta |-> frame_duration, n |-> 0]
    /\ UNCHANGED parseVars
    /\ UNCHANGED control_flow
    /\ UNCHANGED fitVars

\* replay.advance_by(duration)
AdvanceBy ==
    /\ panic = "none"
    /\ replay.some
    /\ call.n < MaxCalls
    /\ \E duration \in Deltas :
          \E r \in {ReplayAdvanceBy(replay.v, duration)} :
              /\ replay' = Some(r.v)
              /\ panic' = IF r.ok THEN "none" ELSE "overflow when adding durations"
              /\ call' = [op |-> "advance_by", delta |-> duration, n |-> call.n + 1]
    /\ UNCHANGED parseVars
    /\ UNCHANGED control_flow
    /\ UNCHANGED fitVars

\* replay.current_frame()
CurrentFrame ==
    /\ panic = "none"
    /\ replay.some
    /\ call.op # "current_frame"
    /\ replay' = replay
    /\ panic' = IF ReplayCurrentFrame(replay.v).ok THEN "none" ELSE "index out of bounds"
    /\ call' = [call EXCEPT !.op = "current_frame"]
    /\ UNCHANGED parseVars
    /\ UNCHANGED control_flow
    /\ UNCHANGED fitVars

NextReplay == NewReplay \/ AdvanceBy \/ CurrentFrame

SpecReplay == InitReplay /\ [][NextReplay]_vars

\* ---------------------------------------------------------------------------
\* Claims about the Replay engine (checked under SpecReplay)
\* ---------------------------------------------------------------------------
HasFrames == replay.some /\ ReplayFrames(replay.v) > 0

PositiveFrameDuration == replay.some /\ replay.v.frame_duration # DurationZero

IndexIs(r, n) == r.current_frame_index = BigFromNat(n)

\* C1: for a Replay with frame_count > 0 and frame_duration > 0, after
\* construction and after every sequence of advance_by calls, elapsed <=
\* total_duration and current_frame_index < frame_count, so that
\* current_frame() indexes an existing Frame.
C1_ElapsedAndIndexInRange ==
    (HasFrames /\ PositiveFrameDuration) =>
        /\ DurationCmp(replay.v.elapsed, replay.v.total_duration) <= 0
        /\ BigCmp(replay.v.current_frame_index, BigFromNat(ReplayFrames(replay.v))) < 0
        /\ ReplayCurrentFrame(replay.v).ok

\* a Replay of several frames that an advance_by larger than what was left has
\* just driven to its total duration
C1_Witness ==
    /\ HasFrames /\ PositiveFrameDuration /\ panic = "none"
    /\ ReplayFrames(replay.v) >= 3
    /\ call.op = "advance_by" /\ call.n >= 2
    /\ DurationCmp(call.delta, replay.v.total_duration) < 0
    /\ replay.v.elapsed = replay.v.total_duration

\* C2: across every advance_by call, neither elapsed nor current_frame_index
\* decreases.
C2_AdvanceIsMonotonic ==
    [][(replay.some /\ replay'.some /\ call'.op = "advance_by" /\ panic' = "none") =>
          /\ DurationCmp(replay'.v.elapsed, replay.v.elapsed) >= 0
          /\ BigCmp(replay'.v.current_frame_index, replay.v.current_frame_index) >= 0]_vars

\* a third advance_by, by a positive delta, that ends on a later frame short of
\* the last one
C2_Witness ==
    /\ HasFrames /\ PositiveFrameDuration /\ panic = "none"
    /\ call.op = "advance_by" /\ call.n >= 3 /\ call.delta # DurationZero
    /\ replay.v.current_frame_index # <<>>
    /\ DurationCmp(replay.v.elapsed, replay.v.total_duration) < 0

\* C3: for a Replay with frame_count > 0 and frame_duration > 0, advance_by
\* with any delta larger than total_duration completes without failure and
\* leaves elapsed = total_duration and current_frame_index = frame_count - 1.
C3_LargeDeltaSaturates ==
    (/\ HasFrames /\ PositiveFrameDuration
     /\ call.op = "advance_by"
     /\ DurationCmp(call.delta, replay.v.total_duration) > 0) =>
        /\ panic = "none"
        /\ replay.v.elapsed = replay.v.total_duration
        /\ IndexIs(replay.v, ReplayFrames(replay.v) - 1)

\* C7: Replay::new rejects frame_duration = 0, so that no Replay with a zero
\* frame_duration exists (and advance_by never divides by a zero duration).
C7_ZeroFrameDurationRejected ==
    ~(replay.some /\ replay.v.frame_duration = DurationZero)

\* C9: advance_by(0) leaves elapsed and current_frame_index as they were.
C9_ZeroDeltaChangesNothing ==
    [][(replay.some /\ call'.op = "advance_by" /\ call'.delta = DurationZero
        /\ panic' = "none") =>
          /\ replay'.v.elapsed = replay.v.elapsed
          /\ replay'.v.current_frame_index = replay.v.current_frame_index]_vars

\* advance_by(0) called on a Replay that is already part of the way through
C9_Witness ==
    /\ replay.some /\ panic = "none"
    /\ call.op = "advance_by" /\ call.delta = DurationZero /\ call.n >= 2
    /\ replay.v.current_frame_index # <<>>
    /\ DurationCmp(replay.v.elapsed, replay.v.total_duration) < 0

\* ---------------------------------------------------------------------------
\* prase_trajectory_txt run statement by statement over small files
\* ---------------------------------------------------------------------------
MaxLines == 3

Row(ped_id, frame_id, x, y) ==
    ped_id \o <<Tab>> \o frame_id \o <<Tab>> \o x \o <<Tab>> \o y

\* the lines files are made of: rows of frames 0, 1 and 2, a row whose
\* frame_id does not fit an i32, and lines the pattern does not match
FileLines ==
    {Row(<<"1">>, <<"0">>, <<"1", ".", "5">>, <<"2">>),
     Row(<<"2">>, <<"0">>, <<"0", ".", "1">>, <<"3", ".", "2", "5">>),
     Row(<<"1">>, <<"1">>, <<"2">>, <<"2", ".", "5">>),
     Row(<<"2">>, <<"2">>, <<"3">>, <<"0">>),
     Row(<<"1">>, <<"2", "1", "4", "7", "4", "8", "3", "6", "4", "8">>, <<"0">>, <<"0">>),
     <<"1", " ", "0", " ", "1", ".", "5", " ", "2">>,
     Row(<<"1">>, <<"0">>, <<"-", "1">>, <<"2">>),
     <<"#", "x">>}

RECURSIVE FilesOfLength(_)
FilesOfLength(n) ==
    IF n = 0 THEN {<<>>}
    ELSE {Append(f, l) : f \in FilesOfLength(n - 1), l \in FileLines}

Files ==
    {NoFile} \cup
    {[openable |-> TRUE, lines |-> f] :
        f \in UNION {FilesOfLength(n) : n \in 0..MaxLines}}

\* the panic of Result::unwrap() on an Err
UnwrapOnErr == "called Result::unwrap() on an Err value"

InitParse ==
    /\ replay = None
    /\ panic = "none"
    /\ call = NoCall
    /\ file \in Files
    /\ pc = "open"
    /\ lines = <<>>
    /\ entries = <<>>
    /\ trajectory = Trajectory(<<>>)
    /\ last_index = -1
    /\ origin = <<>>
    /\ control_flow = "Poll"
    /\ FitIdle

\* std::fs::File::open(path).unwrap(); BufReader::new(file).lines()
OpenFile ==
    /\ pc = "open"
    /\ pc' = IF file.openable THEN "read" ELSE "aborted"
    /\ panic' = IF file.openable THEN "none"
                ELSE UnwrapOnErr
    /\ lines' = file.lines
    /\ UNCHANGED fitVars
    /\ UNCHANGED <<control_flow, replay, call, file, entries, trajectory, last_index, origin>>

\* for line in lines.flatten() { ... }
NextLine ==
    /\ pc = "read"
    /\ lines # <<>>
    /\ \E r \in {ReadLine(entries, Head(lines))} :
          /\ entries' = r.v
          /\ pc' = IF r.ok THEN "read" ELSE "aborted"
          /\ panic' = IF r.ok THEN "none"
                      ELSE UnwrapOnErr
    /\ lines' = Tail(lines)
    /\ UNCHANGED fitVars
    /\ UNCHANGED <<control_flow, replay, call, file, trajectory, last_index, origin>>

\* the statements between the two loops: the sort and the first Frame
SortEntries ==
    /\ pc = "read"
    /\ lines = <<>>
    /\ entries' = SortByFrameId(entries)
    /\ trajectory' = ScanStart.trajectory
    /\ last_index' = ScanStart.last_index
    /\ origin' = [i \in 1..Len(ScanStart.trajectory.frames) |-> <<>>]
    /\ pc' = "scan"
    /\ UNCHANGED fitVars
    /\ UNCHANGED <<control_flow, replay, panic, call, file, lines>>

\* for entry in entries { ... }
NextEntry ==
    /\ pc = "scan"
    /\ entries # <<>>
    /\ \E s \in {ScanEntry([trajectory |-> trajectory, last_index |-> last_index],
                           Head(entries))} :
          /\ trajectory' = s.trajectory
          /\ last_index' = s.last_index
          /\ origin' = IF Len(s.trajectory.frames) > Len(origin)
                       THEN Append(origin, <<Head(entries).frame_id>>)
                       ELSE [origin EXCEPT ![Len(origin)] =
                                Append(@, Head(entries).frame_id)]
    /\ entries' = Tail(entries)
    /\ UNCHANGED fitVars
    /\ UNCHANGED <<control_flow, replay, panic, call, file, pc, lines>>

\* the function returns `trajectory`
ReturnTrajectory ==
    /\ pc = "scan"
    /\ entries = <<>>
    /\ pc' = "done"
    /\ UNCHANGED fitVars
    /\ UNCHANGED <<control_flow, replay, panic, call, file, lines, entries, trajectory,
                   last_index, origin>>

NextParse == OpenFile \/ NextLine \/ SortEntries \/ NextEntry \/ ReturnTrajectory

SpecParse == InitParse /\ [][NextParse]_vars

\* ---------------------------------------------------------------------------
\* Claims about the parser (checked under SpecParse)
\* ---------------------------------------------------------------------------
Range(s) == {s[i] : i \in 1..Len(s)}

\* a row the parser takes an Entry from
IsRow(line) == Captures(line).matched /\ ParseI32(Captures(line).frame_id).ok

RowFrameIds ==
    {ParseI32(Captures(l).frame_id).v : l \in {m \in Range(file.lines) : IsRow(m)}}

AllRowsWellFormed == \A l \in Range(file.lines) : IsRow(l)

NoRowMatches == \A l \in Range(file.lines) : ~Captures(l).matched

ContiguousFromZero ==
    RowFrameIds # {} /\ RowFrameIds = 0..(Cardinality(RowFrameIds) - 1)

\* C4: for every file whose rows are all well-formed and whose frame_ids form
\* one contiguous range starting at 0, the returned Trajectory has as many
\* Frames as there are distinct frame_id values.
C4_FrameCountIsDistinctIds ==
    (pc = "done" /\ file.openable /\ AllRowsWellFormed /\ ContiguousFromZero) =>
        Len(trajectory.frames) = Cardinality(RowFrameIds)

\* C5: in the scan over the sorted entries, whatever the frame_ids (gapped, or
\* starting above 0), entries sharing a frame_id are never split across
\* different Frames, and the number of Frames the scan has started never
\* exceeds the number of distinct frame_ids it has seen.
C5_OneFramePerIdChange ==
    (pc \in {"scan", "done"}) =>
        /\ \A i, j \in 1..Len(origin) :
              i # j => Range(origin[i]) \cap Range(origin[j]) = {}
        /\ Len(trajectory.frames) - Len(ScanStart.trajectory.frames)
              <= Cardinality(UNION {Range(origin[i]) : i \in 1..Len(origin)})

\* C8: for every openable file in which no line matches the row pattern (the
\* empty file included), the parser does not fail and returns a Trajectory of
\* exactly one Frame, which holds no position.
C8_NoRowsGiveOneEmptyFrame ==
    (file.openable /\ NoRowMatches) =>
        /\ panic = "none" /\ pc # "aborted"
        /\ pc = "done" =>
              /\ Len(trajectory.frames) = 1
              /\ trajectory.frames[1].positions = <<>>

\* the parser has returned from a file of several lines, none of them a row
C8_Witness ==
    /\ pc = "done" /\ file.openable /\ NoRowMatches
    /\ Len(file.lines) >= 2
    /\ Cardinality(Range(file.lines)) >= 2

\* ---------------------------------------------------------------------------
\* main.rs: the event loop, its menu and its per-frame drawing
\* ---------------------------------------------------------------------------
MaxRedraws == 2

\* what may be at the path the Open item reads: nothing that can be opened,
\* an empty file, a line that is no row, a row whose frame_id does not fit an
\* i32, one row, and three rows
AppFiles ==
    {NoFile,
     [openable |-> TRUE, lines |-> <<>>],
     [openable |-> TRUE, lines |-> <<<<"#", "x">>>>],
     [openable |-> TRUE,
      lines |-> <<Row(<<"1">>, <<"2", "1", "4", "7", "4", "8", "3", "6", "4", "8">>,
                      <<"0">>, <<"0">>)>>],
     [openable |-> TRUE, lines |-> <<Row(<<"2">>, <<"2">>, <<"3">>, <<"0">>)>>],
     [openable |-> TRUE,
      lines |-> <<Row(<<"1">>, <<"1">>, <<"2">>, <<"2", ".", "5">>),
                  Row(<<"1">>, <<"0">>, <<"1", ".", "5">>, <<"2">>),
                  Row(<<"2">>, <<"0">>, <<"0", ".", "1">>, <<"3", ".", "2", "5">>)>>]}

\* timer.delta_time as Duration::from_secs_f32 returns it
TimerDeltas == {DurationZero, DurationFromMillis(60), DurationFromMillis(1000)}

InitApp ==
    /\ replay = None
    /\ panic = "none"
    /\ call = NoCall
    /\ ParseIdle
    /\ control_flow = "Poll"
    /\ FitIdle

\* state.replay = Some(Replay::new(trajectory, frame_duration)), or the panic
\* that ends the process
OpenReplay(parsed, frame_duration) ==
    IF parsed.ok
    THEN IF ReplayNew(parsed.v, frame_duration).ok
         THEN [panic |-> "none", replay |-> Some(ReplayNew(parsed.v, frame_duration).v)]
         ELSE [panic |-> "overflow when multiplying duration by scalar", replay |-> None]
    ELSE [panic |-> UnwrapOnErr, replay |-> None]

\* the draw_ui closure: the Open item, then the Exit item
DrawUi(state, open_clicked, exit_clicked, path_file, frame_duration) ==
    IF open_clicked
    THEN [OpenReplay(prase_trajectory_txt(path_file), frame_duration)
             EXCEPT !.replay = IF @.some THEN @ ELSE state.replay]
         @@ [keep_running |-> ~exit_clicked]
    ELSE [panic |-> "none", replay |-> state.replay, keep_running |-> ~exit_clicked]

DrawFrame(advanced) ==
    IF ~advanced.ok
    THEN [panic |-> "overflow when adding durations", replay |-> Some(advanced.v)]
    ELSE IF ~ReplayCurrentFrame(advanced.v).ok
         THEN [panic |-> "index out of bounds", replay |-> Some(advanced.v)]
         ELSE [panic |-> "none", replay |-> Some(advanced.v)]

\* the draw_content closure, as far as it touches the ApplicationState
DrawContent(state_replay, elapsed) ==
    IF state_replay.some
    THEN DrawFrame(ReplayAdvanceBy(state_replay.v, elapsed))
    ELSE [panic |-> "none", replay |-> state_replay]

RedrawDrawn(ui, drawn, op, path_file, elapsed) ==
    /\ replay' = IF ui.panic = "none" THEN drawn.replay ELSE ui.replay
    /\ panic' = IF ui.panic = "none" THEN drawn.panic ELSE ui.panic
    /\ control_flow' = IF ui.keep_running THEN control_flow ELSE "Exit"
    /\ file' = IF op = "open" THEN path_file ELSE file
    /\ call' = [op |-> op, delta |-> elapsed, n |-> call.n + 1]

RedrawWith(open_clicked, exit_clicked, path_file, frame_duration, elapsed) ==
    \E ui \in {DrawUi([replay |-> replay], open_clicked, exit_clicked,
                      path_file, frame_duration)} :
        \E drawn \in {DrawContent(ui.replay, elapsed)} :
            RedrawDrawn(ui, drawn, IF open_clicked THEN "open" ELSE "redraw",
                        path_file, elapsed)

\* Event::RedrawRequested: draw_ui, then draw_content
RedrawRequested ==
    /\ panic = "none"
    /\ control_flow = "Poll"
    /\ call.n < MaxRedraws
    /\ \E exit_clicked \in BOOLEAN, elapsed \in TimerDeltas :
          \/ RedrawWith(FALSE, exit_clicked, NoFile, DurationZero, elapsed)
          \/ \E path_file \in AppFiles, frame_duration \in FrameDurations :
                RedrawWith(TRUE, exit_clicked, path_file, frame_duration, elapsed)
    /\ UNCHANGED <<pc, lines, entries, trajectory, last_index, origin>>
    /\ UNCHANGED fitVars

\* WindowEvent::CloseRequested
CloseRequested ==
    /\ panic = "none"
    /\ control_flow = "Poll"
    /\ control_flow' = "Exit"
    /\ UNCHANGED <<replay, panic, call>>
    /\ UNCHANGED parseVars
    /\ UNCHANGED fitVars

NextApp == RedrawRequested \/ CloseRequested

SpecApp == InitApp /\ [][NextApp]_vars

\* ---------------------------------------------------------------------------
\* Claims about opening a file (checked under SpecApp)
\* ---------------------------------------------------------------------------
\* C6: when the file at the path cannot be opened, the parser hands an I/O
\* error back instead of panicking, and the Open action leaves the application
\* running with the Replay (or the absence of one) it had before.
C6_OpenFailureKeepsRunning ==
    [][(call'.op = "open" /\ call'.n > call.n /\ ~file'.openable) =>
          /\ panic' = "none"
          /\ replay'.some = replay.some
          /\ replay.some =>
                /\ replay'.v.trajectory = replay.v.trajectory
                /\ replay'.v.frame_duration = replay.v.frame_duration]_vars

\* ---------------------------------------------------------------------------
\* main.rs: fixup_aspect_ratio, in f32 arithmetic
\* Finite values of ordinary magnitude: the exponent range of f32 is not
\* modelled, so nothing here overflows or becomes subnormal.
\* ---------------------------------------------------------------------------
\* x > y on f32: false when either is NaN
FGreater(x, y) ==
    IF x.k = "nan" \/ y.k = "nan" THEN FALSE
    ELSE IF x.k = "inf" THEN (y.k = "fin" \/ y.s < x.s) /\ x.s > 0
    ELSE IF y.k = "inf" THEN y.s < 0
    ELSE DyCmp(x, y) > 0

\* width as f32 / height as f32
DisplayAspect(dimensions) ==
    FDiv(FFromInt(dimensions[1], F32Bits), FFromInt(dimensions[2], F32Bits), F32Bits)

HalfOf(x) == FDiv(x, FFromInt(2, F32Bits), F32Bits)

\* the `if` branch: (left, right, bottom - delta, top + delta)
FitHeight(left, right, bottom, top, delta) ==
    <<left, right, FSub(bottom, delta, F32Bits), FAdd(top, delta, F32Bits)>>

\* the `else` branch with the sign of delta slipped on the left edge
FitWidthShifted(left, right, bottom, top, delta) ==
    <<FAdd(left, delta, F32Bits), FAdd(right, delta, F32Bits), bottom, top>>

\* the `else` branch: (left - delta, right + delta, bottom, top)
FitWidth(left, right, bottom, top, delta) ==
    <<FSub(left, delta, F32Bits), FAdd(right, delta, F32Bits), bottom, top>>

FitAspect(left, right, bottom, top, display_aspect, width, height) ==
    IF FGreater(FDiv(width, height, F32Bits), display_aspect)
    THEN FitHeight(left, right, bottom, top,
                   HalfOf(FSub(FDiv(width, display_aspect, F32Bits), height, F32Bits)))
    ELSE FitWidth(left, right, bottom, top,
                  HalfOf(FSub(FMul(height, display_aspect, F32Bits), width, F32Bits)))

fixup_aspect_ratio(left, right, bottom, top, display_aspect) ==
    FitAspect(left, right, bottom, top, display_aspect,
              FSub(right, left, F32Bits), FSub(top, bottom, F32Bits))

\* the f32 nearest to tenths / 10
FromTenths(tenths) ==
    FRound(IF tenths < 0 THEN -1 ELSE 1,
           BigFromNat(IF tenths < 0 THEN -tenths ELSE tenths), <<10>>, 0, F32Bits)

\* coordinates as Trajectory::area() reports them, and the -1 of the box drawn
\* when there is no Replay
Coordinates == {FromTenths(t) : t \in {-10, 0, 1, 10, 23, 40, 69}}

\* boxes with left <= right and bottom <= top
Boxes ==
    {b \in Coordinates \X Coordinates \X Coordinates \X Coordinates :
        DyCmp(b[1], b[2]) <= 0 /\ DyCmp(b[3], b[4]) <= 0}

Displays == {<<1, 1>>, <<3, 1>>, <<1, 3>>, <<1024, 768>>, <<1920, 1080>>}

InitFit ==
    /\ replay = None
    /\ panic = "none"
    /\ call = NoCall
    /\ ParseIdle
    /\ control_flow = "Poll"
    /\ display \in Displays
    /\ box \in Boxes
    /\ fitted = None

\* let (left, right, bottom, top) = fixup_aspect_ratio(left, right, bottom, top,
\*                                                     display_aspect)
FixupAspectRatio ==
    /\ ~fitted.some
    /\ fitted' = Some(fixup_aspect_ratio(box[1], box[2], box[3], box[4],
                                         DisplayAspect(display)))
    /\ UNCHANGED <<display, box>>
    /\ UNCHANGED <<replay, panic, call, control_flow>>
    /\ UNCHANGED parseVars

NextFit == FixupAspectRatio

SpecFit == InitFit /\ [][NextFit]_vars

\* ---------------------------------------------------------------------------
\* Claims about fixup_aspect_ratio (checked under SpecFit)
\* ---------------------------------------------------------------------------
NonDegenerate == DyCmp(box[2], box[1]) > 0 /\ DyCmp(box[4], box[3]) > 0

\* data_aspect > display_aspect, as the code evaluates it
DataAspectGreater ==
    FGreater(FDiv(FSub(box[2], box[1], F32Bits), FSub(box[4], box[3], F32Bits), F32Bits),
             DisplayAspect(display))

\* lo + hi, twice the midpoint, as an exact number
TwiceMidpoint(lo, hi) == DyAdd(lo, hi)

SameMidpoint(lo, hi, lo2, hi2) == DyCmp(TwiceMidpoint(lo2, hi2), TwiceMidpoint(lo, hi)) = 0

\* the edges moved outwards by the same amount
GrownSymmetrically(lo, hi, lo2, hi2) ==
    /\ DyCmp(lo2, lo) <= 0
    /\ DyCmp(DySub(lo, lo2), DySub(hi2, hi)) = 0

\* the spacing of the f32 values around x
Ulp(x) == IF x.m = <<>> THEN FZero ELSE Dy(1, <<1>>, x.e)

\* the midpoint has moved by no more than the rounding of the two new edges:
\* 2 * |(lo2 + hi2) - (lo + hi)| <= ulp(lo2) + ulp(hi2)
MidpointWithinRounding(lo, hi, lo2, hi2) ==
    DyCmp(DyMul(Dy(1, <<2>>, 0),
                DyAbs(DySub(TwiceMidpoint(lo2, hi2), TwiceMidpoint(lo, hi)))),
          DyAdd(Ulp(lo2), Ulp(hi2))) <= 0

\* C10 as stated: for every non-degenerate box and display_aspect > 0 the
\* returned box has the input's horizontal and vertical midpoints, and only one
\* axis differs: left/right are unchanged and bottom/top grow symmetrically if
\* data_aspect > display_aspect, otherwise bottom/top are unchanged and
\* left/right grow symmetrically.
C10_MidpointsPreservedExactly ==
    (fitted.some /\ NonDegenerate) =>
        /\ SameMidpoint(box[1], box[2], fitted.v[1], fitted.v[2])
        /\ SameMidpoint(box[3], box[4], fitted.v[3], fitted.v[4])
        /\ IF DataAspectGreater
           THEN /\ fitted.v[1] = box[1] /\ fitted.v[2] = box[2]
                /\ GrownSymmetrically(box[3], box[4], fitted.v[3], fitted.v[4])
           ELSE /\ fitted.v[3] = box[3] /\ fitted.v[4] = box[4]
                /\ GrownSymmetrically(box[1], box[2], fitted.v[1], fitted.v[2])

\* C10 amended: only one axis differs, the other is returned bit for bit
\* (left/right if data_aspect > display_aspect, where bottom/top do not move
\* inwards; bottom/top otherwise), and on the axis that changes the midpoint is
\* the input's up to the f32 rounding of the two new edges.
C10_MidpointsPreservedToRounding ==
    (fitted.some /\ NonDegenerate) =>
        IF DataAspectGreater
        THEN /\ fitted.v[1] = box[1] /\ fitted.v[2] = box[2]
             /\ DyCmp(fitted.v[3], box[3]) <= 0 /\ DyCmp(fitted.v[4], box[4]) >= 0
             /\ MidpointWithinRounding(box[3], box[4], fitted.v[3], fitted.v[4])
        ELSE /\ fitted.v[3] = box[3] /\ fitted.v[4] = box[4]
             /\ MidpointWithinRounding(box[1], box[2], fitted.v[1], fitted.v[2])

\* a non-degenerate box was widened and the rounding of its new edges moved
\* the horizontal midpoint
C10_Witness ==
    /\ fitted.some /\ NonDegenerate /\ ~DataAspectGreater
    /\ fitted.v[1] # box[1] /\ fitted.v[2] # box[2]
    /\ ~SameMidpoint(box[1], box[2], fitted.v[1], fitted.v[2])

\* ---------------------------------------------------------------------------
\* The order of the parsed positions (checked under SpecParse)
\* ---------------------------------------------------------------------------
IsMatched(line) == Captures(line).matched

\* the lines of the file the pattern matches, in file order
MatchedRows == SelectSeq(file.lines, IsMatched)

RowFrameId(line) == ParseI32(Captures(line).frame_id).v

RowPosition(line) == Position(ParseF32(Captures(line).x), ParseF32(Captures(line).y))

MatchedFrameIds == {RowFrameId(MatchedRows[i]) : i \in 1..Len(MatchedRows)}

\* the matched rows by ascending frame_id, rows of one frame_id in file order
RECURSIVE RowsByFrameId(_)
RowsByFrameId(ids) ==
    IF ids = {} THEN <<>>
    ELSE LET lowest == CHOOSE i \in ids : \A j \in ids : i <= j
         IN  SelectSeq(MatchedRows, LAMBDA l : RowFrameId(l) = lowest)
                 \o RowsByFrameId(ids \ {lowest})

RECURSIVE Concatenated(_)
Concatenated(seqs) ==
    IF seqs = <<>> THEN <<>> ELSE Head(seqs) \o Concatenated(Tail(seqs))

\* C11: for every input file the parser returns from, the positions of all
\* Frames of the Trajectory, concatenated in frame order, are the positions of
\* the matched rows stably sorted by frame_id: none lost or duplicated, none of
\* a smaller frame_id after one of a larger frame_id, and rows of equal
\* frame_id in file order.
C11_PositionsAreRowsStablySorted ==
    (pc = "done") =>
        /\ Concatenated([i \in 1..Len(trajectory.frames) |->
                            trajectory.frames[i].positions])
              = [i \in 1..Len(MatchedRows) |->
                    RowPosition(RowsByFrameId(MatchedFrameIds)[i])]
        /\ Concatenated(origin)
              = [i \in 1..Len(MatchedRows) |->
                    RowFrameId(RowsByFrameId(MatchedFrameIds)[i])]

\* the parser has returned from a file of three rows in which a row of a
\* larger frame_id precedes one of a smaller, and two rows of one frame_id
\* hold different positions
C11_Witness ==
    /\ pc = "done"
    /\ Len(MatchedRows) >= 3
    /\ \E i, j \in 1..Len(MatchedRows) :
          i < j /\ RowFrameId(MatchedRows[i]) > RowFrameId(MatchedRows[j])
    /\ \E i, j \in 1..Len(MatchedRows) :
          /\ i < j
          /\ RowFrameId(MatchedRows[i]) = RowFrameId(MatchedRows[j])
          /\ RowPosition(MatchedRows[i]) # RowPosition(MatchedRows[j])

====
